---- MODULE Spec2Model ----
(***************************************************************************)
(* Model of the FUSE session engine of async-fuse-rs:                      *)
(*   src/src/session.rs  Session::new, Session::run (the read loop)        *)
(*   src/src/request.rs  Request::dispatch, Request::dispatch_other        *)
(*                                                                         *)
(* Session::run reads one request per iteration and hands every decoded    *)
(* request to tokio::spawn (session.rs:85): the dispatch of a request is a *)
(* task of its own, scheduled independently of the loop and of the other   *)
(* dispatch tasks.  A task is suspended at its .await points: the          *)
(* filesystem's init hook (request.rs:81), its destroy hook                *)
(* (request.rs:108), the second spawn for every other operation            *)
(* (request.rs:125) and the capability method itself (request.rs:137..).   *)
(* One action of the model is the code a task runs between two such        *)
(* points.                                                                 *)
(*                                                                         *)
(* The two guards of dispatch, !se.initialized and se.destroyed, are read  *)
(* with no suspension point between them.  Both flags are only ever set to *)
(* true, so reading them together at the moment of the later read gives    *)
(* the same outcomes as reading them apart; the model reads them in one    *)
(* step.                                                                   *)
(***************************************************************************)
EXTENDS Integers, Sequences, FiniteSets, TLC

VARIABLES
    proto_major,   \* Session.proto_major
    proto_minor,   \* Session.proto_minor
    initialized,   \* Session.initialized
    destroyed,     \* Session.destroyed
    run_result,    \* Session::run: [done, err]; err = 0 is Ok(())
    last_read,     \* Session::run: what the latest receive and decode gave
    handle,        \* BackgroundSession: "held" or "dropped"
    mounted,       \* whether the mountpoint is attached to the kernel driver
    unmount_failed,\* BackgroundSession::drop logged "Failed to unmount"
    reqs,          \* the requests read so far, in read order; index = unique id
    pc,            \* per request: where its dispatch task stands
    replyObjs,     \* per request: number of Reply objects constructed (Request::reply)
    replies,       \* per request: the replies sent to the transport, in order
    calls,         \* per request: the filesystem methods invoked for it, in order
    ret,           \* per request: what the filesystem method returned (0 = Ok)
    logged         \* per request: the warn!/error! lines dispatch wrote

vars == <<proto_major, proto_minor, initialized, destroyed, run_result,
          last_read, handle, mounted, unmount_failed, reqs,
          pc, replyObjs, replies, calls, ret, logged>>

session == <<proto_major, proto_minor, initialized, destroyed>>

\* the mount and the handle of the background session
background == <<handle, mounted, unmount_failed>>

\* everything the read loop and the owner of the session write
run_state == <<run_result, last_read, background>>

----------------------------------------------------------------------------
\* Bounds of the model

\* number of requests the kernel sends in one run
MaxReq == 3

\* number of Init messages the kernel sends in one run of the negotiation
\* specification
MaxInit == 2

\* number of requests read in one run over the failing channel
MaxRead == 3

\* number of requests read in one run of the background session
MaxBgRead == 2

\* requests read in the specification of the operation routing
MaxOps == 2

\* requests read in the specification of the SetAttr translation
MaxSetAttr == 2

----------------------------------------------------------------------------
\* Program constants

\* libc errno values used by the engine
ENOENT == 2
EINTR == 4
EIO == 5
EAGAIN == 11
ENODEV == 19
ENOSYS == 38
EPROTO == 71

\* fuse_abi: version this engine answers Init with
FUSE_KERNEL_VERSION == 7
FUSE_KERNEL_MINOR_VERSION == 8

\* fuse_abi::consts: capability bits of the Init exchange
FUSE_ASYNC_READ == 1
FUSE_POSIX_LOCKS == 2

\* request.rs:25 (the build for every target but macOS)
INIT_FLAGS == FUSE_ASYNC_READ

\* fuse_abi::consts: validity bits of fuse_setattr_in.valid (request.rs:146-170)
FATTR_MODE == 1
FATTR_UID == 2
FATTR_GID == 4
FATTR_SIZE == 8
FATTR_ATIME == 16
FATTR_MTIME == 32
FATTR_FH == 64

\* fuse_abi::consts: bit of fuse_release_in.release_flags (request.rs:242)
FUSE_RELEASE_FLUSH == 1

\* std::time::Duration::new carries whole seconds out of its nanoseconds
NANOS_PER_SEC == 1000000000

\* session.rs:24
MAX_WRITE_SIZE == 16 * 1024 * 1024

----------------------------------------------------------------------------
\* Pure helpers

\* u32 & u32
RECURSIVE BitAnd(_, _)
BitAnd(a, b) ==
    IF a = 0 \/ b = 0 THEN 0
    ELSE (a % 2) * (b % 2) + 2 * BitAnd(a \div 2, b \div 2)

\* request.rs:72: "We don't support ABI versions before 7.6"
AbiUnsupportedMajorOnly(major, minor) == major < 7

AbiUnsupported(major, minor) == major < 7 \/ (major = 7 /\ minor < 6)

\* request.rs:89-96: the fuse_init_out sent on a successful Init
InitOutEchoFlags(arg) ==
    [error |-> 0,
     major |-> FUSE_KERNEL_VERSION,
     minor |-> FUSE_KERNEL_MINOR_VERSION,
     max_readahead |-> arg.max_readahead,
     flags |-> arg.flags,
     unused |-> 0,
     max_write |-> MAX_WRITE_SIZE]

InitOut(arg) ==
    [error |-> 0,
     major |-> FUSE_KERNEL_VERSION,
     minor |-> FUSE_KERNEL_MINOR_VERSION,
     max_readahead |-> arg.max_readahead,
     flags |-> BitAnd(arg.flags, INIT_FLAGS),
     unused |-> 0,
     max_write |-> MAX_WRITE_SIZE]

\* ReplyEmpty::ok() and Reply::error(errno)
ReplyOk == [error |-> 0]

ReplyError(e) == [error |-> e]

\* request.rs:67-129: the arm of dispatch's match that a request takes, the
\* arms tried in the order they are written
ArmNoInitGuard(r, init, destr) ==
    IF r.op = "Init" THEN "Init"
    ELSE IF r.op = "Destroy" THEN "Destroy"
    ELSE IF destr THEN "AfterDestroy"
    ELSE IF r.op = "Interrupt" THEN "Interrupt"
    ELSE "Other"

\* request.rs:67-129 with the Interrupt arm ahead of the lifecycle guards
ArmInterruptFirst(r, init, destr) ==
    IF r.op = "Init" THEN "Init"
    ELSE IF r.op = "Interrupt" THEN "Interrupt"
    ELSE IF ~init THEN "BeforeInit"
    ELSE IF r.op = "Destroy" THEN "Destroy"
    ELSE IF destr THEN "AfterDestroy"
    ELSE "Other"

Arm(r, init, destr) ==
    IF r.op = "Init" THEN "Init"
    ELSE IF ~init THEN "BeforeInit"
    ELSE IF r.op = "Destroy" THEN "Destroy"
    ELSE IF destr THEN "AfterDestroy"
    ELSE IF r.op = "Interrupt" THEN "Interrupt"
    ELSE "Other"

----------------------------------------------------------------------------
\* Inputs: what the kernel driver and the filesystem can produce

\* Init messages of the lifecycle specification: a version below 7.6, the
\* minimum version, and a later major version
LifecycleInits ==
    {[op |-> "Init", major |-> 7, minor |-> 5, max_readahead |-> 131072, flags |-> FUSE_ASYNC_READ],
     [op |-> "Init", major |-> 7, minor |-> 6, max_readahead |-> 131072, flags |-> FUSE_ASYNC_READ],
     [op |-> "Init", major |-> 8, minor |-> 0, max_readahead |-> 0,
      flags |-> FUSE_ASYNC_READ + FUSE_POSIX_LOCKS]}

OtherRequests ==
    {[op |-> "Destroy"],
     [op |-> "Interrupt"],
     [op |-> "Forget", nodeid |-> 1, nlookup |-> 1],
     [op |-> "Lookup", nodeid |-> 1, name |-> "foo"]}

Requests == LifecycleInits \cup OtherRequests

\* requests of the specification of the failing channel
RunRequests ==
    {[op |-> "Init", major |-> 7, minor |-> 6, max_readahead |-> 131072, flags |-> FUSE_ASYNC_READ],
     [op |-> "Destroy"],
     [op |-> "Interrupt"],
     [op |-> "Lookup", nodeid |-> 1, name |-> "foo"]}

\* requests of the specification of the background session
BgRequests ==
    {[op |-> "Init", major |-> 7, minor |-> 6, max_readahead |-> 131072, flags |-> FUSE_ASYNC_READ],
     [op |-> "Lookup", nodeid |-> 1, name |-> "foo"]}

\* a u64 offset: its top bit and its low 63 bits
U64(top, low) == [top |-> top, low |-> low]

\* the lock descriptor of GetLk, SetLk and SetLkW (arg.lk)
Lk == [start |-> 10, end |-> 20, typ |-> 1, pid |-> 77]

\* the Init the kernel opens a session with in the specifications of the
\* operations
OpsInit ==
    [op |-> "Init", major |-> 7, minor |-> 6, max_readahead |-> 131072, flags |-> FUSE_ASYNC_READ]

\* payloads and declared sizes of Write and SetXAttr messages
Payloads == {<<>>, <<104>>, <<104, 105>>}

DeclaredSizes == {0, 1, 2}

WriteRequests ==
    {[op |-> "Write", nodeid |-> 1, fh |-> 3, offset |-> U64(0, 4096), size |-> n,
      write_flags |-> 1, data |-> d] : n \in DeclaredSizes, d \in Payloads}

SetXAttrRequests ==
    {[op |-> "SetXAttr", nodeid |-> 1, name |-> "user.k", size |-> n, flags |-> 2,
      value |-> d] : n \in DeclaredSizes, d \in Payloads}

\* one message of every other operation dispatch_other routes, with the two
\* values of every flag it decodes
PlainRequests ==
    {[op |-> "Lookup", nodeid |-> 1, name |-> "foo"],
     [op |-> "Forget", nodeid |-> 1, nlookup |-> 1],
     [op |-> "GetAttr", nodeid |-> 1],
     [op |-> "ReadLink", nodeid |-> 1],
     [op |-> "MkNod", nodeid |-> 1, name |-> "foo", mode |-> 420, rdev |-> 5],
     [op |-> "MkDir", nodeid |-> 1, name |-> "foo", mode |-> 493],
     [op |-> "Unlink", nodeid |-> 1, name |-> "foo"],
     [op |-> "RmDir", nodeid |-> 1, name |-> "foo"],
     [op |-> "SymLink", nodeid |-> 1, name |-> "foo", link |-> "bar"],
     [op |-> "Rename", nodeid |-> 1, name |-> "foo", newdir |-> 2, newname |-> "bar"],
     [op |-> "Link", nodeid |-> 1, oldnodeid |-> 2, name |-> "foo"],
     [op |-> "Open", nodeid |-> 1, flags |-> 2],
     [op |-> "Read", nodeid |-> 1, fh |-> 3, offset |-> U64(0, 4096), size |-> 512],
     [op |-> "Read", nodeid |-> 1, fh |-> 3, offset |-> U64(1, 0), size |-> 512],
     [op |-> "Flush", nodeid |-> 1, fh |-> 3, lock_owner |-> 9],
     [op |-> "Release", nodeid |-> 1, fh |-> 3, flags |-> 2, lock_owner |-> 9, release_flags |-> 0],
     [op |-> "Release", nodeid |-> 1, fh |-> 3, flags |-> 2, lock_owner |-> 9, release_flags |-> 1],
     [op |-> "FSync", nodeid |-> 1, fh |-> 3, fsync_flags |-> 0],
     [op |-> "FSync", nodeid |-> 1, fh |-> 3, fsync_flags |-> 3],
     [op |-> "OpenDir", nodeid |-> 1, flags |-> 2],
     [op |-> "ReadDir", nodeid |-> 1, fh |-> 3, offset |-> U64(0, 4096), size |-> 512],
     [op |-> "ReleaseDir", nodeid |-> 1, fh |-> 3, flags |-> 2],
     [op |-> "FSyncDir", nodeid |-> 1, fh |-> 3, fsync_flags |-> 0],
     [op |-> "FSyncDir", nodeid |-> 1, fh |-> 3, fsync_flags |-> 1],
     [op |-> "StatFs", nodeid |-> 1],
     [op |-> "GetXAttr", nodeid |-> 1, name |-> "user.k", size |-> 16],
     [op |-> "ListXAttr", nodeid |-> 1, size |-> 16],
     [op |-> "RemoveXAttr", nodeid |-> 1, name |-> "user.k"],
     [op |-> "Access", nodeid |-> 1, mask |-> 4],
     [op |-> "Create", nodeid |-> 1, name |-> "foo", mode |-> 420, flags |-> 2],
     [op |-> "GetLk", nodeid |-> 1, fh |-> 3, owner |-> 9, lk |-> Lk],
     [op |-> "SetLk", nodeid |-> 1, fh |-> 3, owner |-> 9, lk |-> Lk],
     [op |-> "SetLkW", nodeid |-> 1, fh |-> 3, owner |-> 9, lk |-> Lk],
     [op |-> "BMap", nodeid |-> 1, blocksize |-> 512, block |-> 8]}

\* validity bitmasks of SetAttr: every combination of the seven bits the
\* translation tests, and two masks with a bit it does not test
ValidMasks == 0..127 \cup {128, 128 + FATTR_SIZE}

\* a SetAttr message: uid, gid and size are 0 (chown to root, truncate), so
\* that an absent field and a zero field differ; mtimensec is above one second
SetAttrIn(valid) ==
    [op |-> "SetAttr", nodeid |-> 1, valid |-> valid, mode |-> 420, uid |-> 0, gid |-> 0,
     size |-> 0, atime |-> 1000, atimensec |-> 500, mtime |-> 2000,
     mtimensec |-> 1500000000, fh |-> 3]

SetAttrRequests == {SetAttrIn(valid) : valid \in ValidMasks}

\* requests of the specification of the operation routing
OpRequests ==
    PlainRequests \cup WriteRequests \cup SetXAttrRequests \cup {SetAttrIn(FATTR_SIZE)}

\* Init messages of the negotiation specification: proposed ABI versions
\* <<major, minor>> around 7.6, kernel-offered capability flags with and
\* without bits outside INIT_FLAGS, and readahead sizes
Versions == {<<6, 9>>, <<7, 5>>, <<7, 6>>, <<8, 0>>}

OfferedFlags == {FUSE_ASYNC_READ, FUSE_POSIX_LOCKS, FUSE_ASYNC_READ + FUSE_POSIX_LOCKS}

Readaheads == {0, 131072}

InitRequests ==
    {[op |-> "Init", major |-> v[1], minor |-> v[2], max_readahead |-> ra, flags |-> f] :
        v \in Versions, ra \in Readaheads, f \in OfferedFlags}

\* errors of Channel::receive
ReadErrors == {ENOENT, EINTR, EAGAIN, ENODEV, EIO}

\* results of Filesystem::init: Ok(()) or Err(errno)
InitResults == {0, EIO, EPROTO}

\* results a capability method reports through its reply sink
MethodResults == {0, ENOSYS}

Tasks == 1..Len(reqs)

----------------------------------------------------------------------------
\* Session::new (session.rs:49-61)

Init ==
    /\ proto_major = 0
    /\ proto_minor = 0
    /\ initialized = FALSE
    /\ destroyed = FALSE
    /\ run_result = [done |-> FALSE, err |-> 0]
    /\ last_read = <<>>
    /\ handle = "held"
    /\ mounted = TRUE
    /\ unmount_failed = FALSE
    /\ reqs = <<>>
    /\ pc = <<>>
    /\ replyObjs = <<>>
    /\ replies = <<>>
    /\ calls = <<>>
    /\ ret = <<>>
    /\ logged = <<>>

tasks_unchanged == UNCHANGED <<reqs, pc, replyObjs, replies, calls, ret, logged>>

----------------------------------------------------------------------------
\* Session::run (session.rs:72-105)

\* what one receive and decode gave: the error of receive (0 = Ok) and
\* whether Request::new gave a request
Received(e, decoded) == <<[err |-> e, decoded |-> decoded]>>

\* Channel::receive: what a read can return; once the mountpoint is
\* unmounted every read fails with ENODEV
ReceiveResults(m) == IF m THEN {0} \cup ReadErrors ELSE {ENODEV}

\* the loop is at its receive: tokio::spawn (session.rs:85) returns at once,
\* nothing is awaited before the next iteration
LoopReadyAwaits == ~run_result.done /\ \A t \in Tasks : pc[t] = "done"

LoopReady == ~run_result.done

\* receive is Ok and the message decodes: spawn its dispatch, loop again
run_dispatch(r) ==
    /\ LoopReady
    /\ 0 \in ReceiveResults(mounted)
    /\ last_read' = Received(0, TRUE)
    /\ reqs' = Append(reqs, r)
    /\ pc' = Append(pc, "spawned")
    /\ replyObjs' = Append(replyObjs, 0)
    /\ replies' = Append(replies, <<>>)
    /\ calls' = Append(calls, <<>>)
    /\ ret' = Append(ret, <<>>)
    /\ logged' = Append(logged, <<>>)
    /\ UNCHANGED <<session, run_result, background>>

\* session.rs:88 with continue in place of break
IllegalOutcomeSkip == run_result

\* session.rs:88, 104: "Quit loop on illegal request", Ok(())
IllegalOutcome == [done |-> TRUE, err |-> 0]

\* receive is Ok and Request::new gives None
run_illegal ==
    /\ LoopReady
    /\ 0 \in ReceiveResults(mounted)
    /\ last_read' = Received(0, FALSE)
    /\ run_result' = IllegalOutcome
    /\ UNCHANGED <<session, background>>
    /\ tasks_unchanged

\* session.rs:90-101 without the EAGAIN arm
ReadOutcomeNoEagain(e, cur) ==
    IF e \in {ENOENT, EINTR} THEN cur
    ELSE IF e = ENODEV THEN [done |-> TRUE, err |-> 0]
    ELSE [done |-> TRUE, err |-> e]

\* session.rs:90-101 with ENODEV left to the last arm
ReadOutcomeNoEnodev(e, cur) ==
    IF e \in {ENOENT, EINTR, EAGAIN} THEN cur
    ELSE [done |-> TRUE, err |-> e]

\* session.rs:90-101: what the loop does with the error of a read: continue,
\* break (and return Ok(())), or return Err(err)
ReadOutcome(e, cur) ==
    IF e \in {ENOENT, EINTR, EAGAIN} THEN cur
    ELSE IF e = ENODEV THEN [done |-> TRUE, err |-> 0]
    ELSE [done |-> TRUE, err |-> e]

\* receive is Err(e)
run_error(e) ==
    /\ LoopReady
    /\ e \in ReceiveResults(mounted) \ {0}
    /\ last_read' = Received(e, FALSE)
    /\ run_result' = ReadOutcome(e, run_result)
    /\ UNCHANGED <<session, background>>
    /\ tasks_unchanged

----------------------------------------------------------------------------
\* BackgroundSession (session.rs:122-150)

\* results of channel::unmount: Ok(()) or Err
UnmountResults == {0, EIO}

\* channel::unmount: the mountpoint is detached when it succeeds
Unmounted(m, res) == IF res = 0 THEN FALSE ELSE m

\* Drop for BackgroundSession (session.rs:140-150): unmount, log a failure
drop_handle(res) ==
    /\ handle = "held"
    /\ handle' = "dropped"
    /\ mounted' = Unmounted(mounted, res)
    /\ unmount_failed' = (res # 0)
    /\ UNCHANGED <<session, run_result, last_read>>
    /\ tasks_unchanged

----------------------------------------------------------------------------
\* Request::dispatch (request.rs:63-130)

Send(t, msg) == replies' = [replies EXCEPT ![t] = Append(@, msg)]

NewReply(t) == replyObjs' = [replyObjs EXCEPT ![t] = @ + 1]

Log(t, line) == logged' = [logged EXCEPT ![t] = Append(@, line)]

Call(t, c) == calls' = [calls EXCEPT ![t] = Append(@, c)]

Goto(t, l) == pc' = [pc EXCEPT ![t] = l]

\* request.rs:77-81: remember the version, call the init hook and await it
InitAccept(t) ==
    /\ proto_major' = reqs[t].major
    /\ proto_minor' = reqs[t].minor
    /\ Call(t, [method |-> "init"])
    /\ Goto(t, "init_hook")
    /\ UNCHANGED <<initialized, destroyed, run_state, reqs, ret>>

\* request.rs:73-75 without the return
InitRejectNoReturn(t) ==
    /\ Log(t, "unsupported_abi")
    /\ Send(t, ReplyError(EPROTO))
    /\ InitAccept(t)

\* request.rs:73-75
InitReject(t) ==
    /\ Log(t, "unsupported_abi")
    /\ Send(t, ReplyError(EPROTO))
    /\ Goto(t, "done")
    /\ UNCHANGED <<session, run_state, reqs, calls, ret>>

\* request.rs:69-81
DispatchInit(t) ==
    /\ pc[t] = "spawned"
    /\ Arm(reqs[t], initialized, destroyed) = "Init"
    /\ NewReply(t)
    /\ IF AbiUnsupported(reqs[t].major, reqs[t].minor)
       THEN InitReject(t)
       ELSE InitAccept(t) /\ UNCHANGED <<replies, logged>>

\* request.rs:82-99 with the flag set from the hook's result
InitResumeStoreResult(t, res) ==
    /\ initialized' = (res = 0)
    /\ Send(t, IF res # 0 THEN ReplyError(res) ELSE InitOut(reqs[t]))

\* request.rs:82-99 with EIO sent for every error of the hook
InitResumeErrnoEIO(t, res) ==
    IF res # 0
    THEN /\ Send(t, ReplyError(EIO))
         /\ UNCHANGED initialized
    ELSE /\ initialized' = TRUE
         /\ Send(t, InitOut(reqs[t]))

\* request.rs:82-99: the init hook returned res
InitResume(t, res) ==
    IF res # 0
    THEN /\ Send(t, ReplyError(res))
         /\ UNCHANGED initialized
    ELSE /\ initialized' = TRUE
         /\ Send(t, InitOut(reqs[t]))

InitHookReturn(t, res) ==
    /\ pc[t] = "init_hook"
    /\ ret' = [ret EXCEPT ![t] = Append(@, res)]
    /\ InitResume(t, res)
    /\ Goto(t, "done")
    /\ UNCHANGED <<proto_major, proto_minor, destroyed, run_state, reqs,
                   replyObjs, calls, logged>>

\* request.rs:102-105
DispatchBeforeInit(t) ==
    /\ pc[t] = "spawned"
    /\ Arm(reqs[t], initialized, destroyed) = "BeforeInit"
    /\ Log(t, "before_init")
    /\ NewReply(t)
    /\ Send(t, ReplyError(EIO))
    /\ Goto(t, "done")
    /\ UNCHANGED <<session, run_state, reqs, calls, ret>>

\* request.rs:107-108: call the destroy hook and await it
DispatchDestroy(t) ==
    /\ pc[t] = "spawned"
    /\ Arm(reqs[t], initialized, destroyed) = "Destroy"
    /\ Call(t, [method |-> "destroy"])
    /\ Goto(t, "destroy_hook")
    /\ UNCHANGED <<session, run_state, reqs, replyObjs, replies, ret, logged>>

\* request.rs:109-110: the destroy hook returned
DestroyHookReturn(t) ==
    /\ pc[t] = "destroy_hook"
    /\ destroyed' = TRUE
    /\ NewReply(t)
    /\ Send(t, ReplyOk)
    /\ Goto(t, "done")
    /\ UNCHANGED <<proto_major, proto_minor, initialized, run_state, reqs,
                   calls, ret, logged>>

\* request.rs:113-116
DispatchAfterDestroy(t) ==
    /\ pc[t] = "spawned"
    /\ Arm(reqs[t], initialized, destroyed) = "AfterDestroy"
    /\ Log(t, "after_destroy")
    /\ NewReply(t)
    /\ Send(t, ReplyError(EIO))
    /\ Goto(t, "done")
    /\ UNCHANGED <<session, run_state, reqs, calls, ret>>

\* request.rs:118-121
DispatchInterrupt(t) ==
    /\ pc[t] = "spawned"
    /\ Arm(reqs[t], initialized, destroyed) = "Interrupt"
    /\ NewReply(t)
    /\ Send(t, ReplyError(ENOSYS))
    /\ Goto(t, "done")
    /\ UNCHANGED <<session, run_state, reqs, calls, ret, logged>>

\* request.rs:123-128: every other operation is spawned as a task of its own
DispatchSpawn(t) ==
    /\ pc[t] = "spawned"
    /\ Arm(reqs[t], initialized, destroyed) = "Other"
    /\ Goto(t, "fanned")
    /\ UNCHANGED <<session, run_state, reqs, replyObjs, replies, calls, ret, logged>>

----------------------------------------------------------------------------
\* Request::dispatch_other (request.rs:133-326)

\* Option<T>: None, Some(v)
None == <<>>

Some(v) == <<v>>

\* every optional field is passed, set or not
OptionIfAlways(valid, bit, v) == Some(v)

\* match arg.valid & FATTR_X { 0 => None, _ => Some(v) } (request.rs:146-173)
OptionIf(valid, bit, v) == IF BitAnd(valid, bit) = 0 THEN None ELSE Some(v)

\* UNIX_EPOCH + Duration::new(secs, nanos), as the time since the epoch
\* (request.rs:164, 168)
SinceEpoch(secs, nanos) ==
    [secs |-> secs + (nanos \div NANOS_PER_SEC), nanos |-> nanos % NANOS_PER_SEC]

\* match flags & bit { 0 => false, _ => true } (request.rs:241-244, 248-251,
\* 264-267)
FlagSet(flags, bit) == BitAnd(flags, bit) # 0

\* arg.offset as i64 (request.rs:231, 235, 258): the same 64 bits, the top
\* one now the sign
AsI64(u) == [negative |-> u.top = 1, low |-> u.low]

\* get_position off macOS (request.rs:278-280)
get_position == 0

\* the arguments of setattr (request.rs:145-202); get_macos_setattr off macOS
\* gives None four times (request.rs:197-200)
SetAttrCall(r) ==
    [method |-> "setattr", nodeid |-> r.nodeid,
     mode |-> OptionIf(r.valid, FATTR_MODE, r.mode),
     uid |-> OptionIf(r.valid, FATTR_UID, r.uid),
     gid |-> OptionIf(r.valid, FATTR_GID, r.gid),
     size |-> OptionIf(r.valid, FATTR_SIZE, r.size),
     atime |-> OptionIf(r.valid, FATTR_ATIME, SinceEpoch(r.atime, r.atimensec)),
     mtime |-> OptionIf(r.valid, FATTR_MTIME, SinceEpoch(r.mtime, r.mtimensec)),
     fh |-> OptionIf(r.valid, FATTR_FH, r.fh),
     crtime |-> None, chgtime |-> None, bkuptime |-> None, flags |-> None]

\* setlk with the may-block flag of SetLk for both operations
LockCallNeverBlocks(r, method, sleep) ==
    [method |-> method, nodeid |-> r.nodeid, fh |-> r.fh, owner |-> r.owner,
     start |-> r.lk.start, end |-> r.lk.end, typ |-> r.lk.typ, pid |-> r.lk.pid,
     sleep |-> <<FALSE>>]

\* the arguments of getlk and setlk (request.rs:298-306); getlk has no
\* may-block flag
LockCall(r, method, sleep) ==
    [method |-> method, nodeid |-> r.nodeid, fh |-> r.fh, owner |-> r.owner,
     start |-> r.lk.start, end |-> r.lk.end, typ |-> r.lk.typ, pid |-> r.lk.pid,
     sleep |-> sleep]

\* the capability method an operation is routed to, with its arguments
MethodCall(r) ==
    CASE r.op = "Lookup" -> [method |-> "lookup", nodeid |-> r.nodeid, name |-> r.name]
      [] r.op = "Forget" -> [method |-> "forget", nodeid |-> r.nodeid, nlookup |-> r.nlookup]
      [] r.op = "GetAttr" -> [method |-> "getattr", nodeid |-> r.nodeid]
      [] r.op = "SetAttr" -> SetAttrCall(r)
      [] r.op = "ReadLink" -> [method |-> "readlink", nodeid |-> r.nodeid]
      [] r.op = "MkNod" ->
            [method |-> "mknod", nodeid |-> r.nodeid, name |-> r.name, mode |-> r.mode,
             rdev |-> r.rdev]
      [] r.op = "MkDir" ->
            [method |-> "mkdir", nodeid |-> r.nodeid, name |-> r.name, mode |-> r.mode]
      [] r.op = "Unlink" -> [method |-> "unlink", nodeid |-> r.nodeid, name |-> r.name]
      [] r.op = "RmDir" -> [method |-> "rmdir", nodeid |-> r.nodeid, name |-> r.name]
      [] r.op = "SymLink" ->
            [method |-> "symlink", nodeid |-> r.nodeid, name |-> r.name, link |-> r.link]
      [] r.op = "Rename" ->
            [method |-> "rename", nodeid |-> r.nodeid, name |-> r.name, newdir |-> r.newdir,
             newname |-> r.newname]
      [] r.op = "Link" ->
            [method |-> "link", oldnodeid |-> r.oldnodeid, nodeid |-> r.nodeid,
             name |-> r.name]
      [] r.op = "Open" -> [method |-> "open", nodeid |-> r.nodeid, flags |-> r.flags]
      [] r.op = "Read" ->
            [method |-> "read", nodeid |-> r.nodeid, fh |-> r.fh,
             offset |-> AsI64(r.offset), size |-> r.size]
      [] r.op = "Write" ->
            [method |-> "write", nodeid |-> r.nodeid, fh |-> r.fh,
             offset |-> AsI64(r.offset), data |-> r.data, write_flags |-> r.write_flags]
      [] r.op = "Flush" ->
            [method |-> "flush", nodeid |-> r.nodeid, fh |-> r.fh,
             lock_owner |-> r.lock_owner]
      [] r.op = "Release" ->
            [method |-> "release", nodeid |-> r.nodeid, fh |-> r.fh, flags |-> r.flags,
             lock_owner |-> r.lock_owner,
             flush |-> FlagSet(r.release_flags, FUSE_RELEASE_FLUSH)]
      [] r.op = "FSync" ->
            [method |-> "fsync", nodeid |-> r.nodeid, fh |-> r.fh,
             datasync |-> FlagSet(r.fsync_flags, 1)]
      [] r.op = "OpenDir" -> [method |-> "opendir", nodeid |-> r.nodeid, flags |-> r.flags]
      [] r.op = "ReadDir" ->
            [method |-> "readdir", nodeid |-> r.nodeid, fh |-> r.fh,
             offset |-> AsI64(r.offset), size |-> r.size]
      [] r.op = "ReleaseDir" ->
            [method |-> "releasedir", nodeid |-> r.nodeid, fh |-> r.fh, flags |-> r.flags]
      [] r.op = "FSyncDir" ->
            [method |-> "fsyncdir", nodeid |-> r.nodeid, fh |-> r.fh,
             datasync |-> FlagSet(r.fsync_flags, 1)]
      [] r.op = "StatFs" -> [method |-> "statfs", nodeid |-> r.nodeid]
      [] r.op = "SetXAttr" ->
            [method |-> "setxattr", nodeid |-> r.nodeid, name |-> r.name,
             value |-> r.value, flags |-> r.flags, position |-> get_position]
      [] r.op = "GetXAttr" ->
            [method |-> "getxattr", nodeid |-> r.nodeid, name |-> r.name, size |-> r.size]
      [] r.op = "ListXAttr" -> [method |-> "listxattr", nodeid |-> r.nodeid, size |-> r.size]
      [] r.op = "RemoveXAttr" ->
            [method |-> "removexattr", nodeid |-> r.nodeid, name |-> r.name]
      [] r.op = "Access" -> [method |-> "access", nodeid |-> r.nodeid, mask |-> r.mask]
      [] r.op = "Create" ->
            [method |-> "create", nodeid |-> r.nodeid, name |-> r.name, mode |-> r.mode,
             flags |-> r.flags]
      [] r.op = "GetLk" -> LockCall(r, "getlk", None)
      [] r.op = "SetLk" -> LockCall(r, "setlk", Some(FALSE))
      [] r.op = "SetLkW" -> LockCall(r, "setlk", Some(TRUE))
      [] r.op = "BMap" ->
            [method |-> "bmap", nodeid |-> r.nodeid, blocksize |-> r.blocksize,
             block |-> r.block]

\* the assertions are compiled out
PayloadAssertedNever(r) == TRUE

\* assert!(data.len() == arg.size as usize) of Write (request.rs:234) and
\* assert!(value.len() == arg.size as usize) of SetXAttr (request.rs:274)
PayloadAsserted(r) ==
    CASE r.op = "Write" -> Len(r.data) = r.size
      [] r.op = "SetXAttr" -> Len(r.value) = r.size
      [] OTHER -> TRUE

\* whether the call passes req.reply() to the method (request.rs:140: forget
\* gets none)
HasReplySink(r) == r.op # "Forget"

\* the spawned task runs: the method is invoked, unless an assertion on the
\* payload fails first; the panic ends the task before req.reply() is
\* evaluated
dispatch_other(t) ==
    /\ pc[t] = "fanned"
    /\ IF PayloadAsserted(reqs[t])
       THEN /\ Call(t, MethodCall(reqs[t]))
            /\ replyObjs' = [replyObjs EXCEPT ![t] = IF HasReplySink(reqs[t]) THEN @ + 1 ELSE @]
            /\ Goto(t, "in_fs")
       ELSE /\ Goto(t, "panicked")
            /\ UNCHANGED <<calls, replyObjs>>
    /\ UNCHANGED <<session, run_state, reqs, replies, ret, logged>>

\* the method's error ends the session loop
MethodReturnFatal(t, res) ==
    /\ pc[t] = "in_fs"
    /\ IF HasReplySink(reqs[t])
       THEN /\ Send(t, ReplyError(res))
            /\ ret' = [ret EXCEPT ![t] = Append(@, res)]
       ELSE /\ res = 0
            /\ UNCHANGED <<replies, ret>>
    /\ run_result' = IF res # 0 THEN [done |-> TRUE, err |-> res] ELSE run_result
    /\ Goto(t, "done")
    /\ UNCHANGED <<session, last_read, background, reqs, replyObjs, calls, logged>>

\* the method answers through its reply sink (forget just returns)
MethodReturn(t, res) ==
    /\ pc[t] = "in_fs"
    /\ IF HasReplySink(reqs[t])
       THEN /\ Send(t, ReplyError(res))
            /\ ret' = [ret EXCEPT ![t] = Append(@, res)]
       ELSE /\ res = 0
            /\ UNCHANGED <<replies, ret>>
    /\ Goto(t, "done")
    /\ UNCHANGED <<session, run_state, reqs, replyObjs, calls, logged>>

----------------------------------------------------------------------------

\* the steps of the dispatch tasks
TaskStep ==
    \/ \E t \in Tasks : DispatchInit(t)
    \/ \E t \in Tasks : \E res \in InitResults : InitHookReturn(t, res)
    \/ \E t \in Tasks : DispatchBeforeInit(t)
    \/ \E t \in Tasks : DispatchDestroy(t)
    \/ \E t \in Tasks : DestroyHookReturn(t)
    \/ \E t \in Tasks : DispatchAfterDestroy(t)
    \/ \E t \in Tasks : DispatchInterrupt(t)
    \/ \E t \in Tasks : DispatchSpawn(t)
    \/ \E t \in Tasks : dispatch_other(t)
    \/ \E t \in Tasks : \E res \in MethodResults : MethodReturn(t, res)

\* The session over a channel that delivers well-formed requests: every
\* request value, every interleaving of the loop and the dispatch tasks
Next ==
    \/ \E r \in Requests : Len(reqs) < MaxReq /\ run_dispatch(r)
    \/ TaskStep

Spec == Init /\ [][Next]_vars

\* The session over a channel whose reads can fail and whose messages can
\* be malformed
NextRun ==
    \/ \E r \in RunRequests : Len(reqs) < MaxRead /\ run_dispatch(r)
    \/ run_illegal
    \/ \E e \in ReadErrors : run_error(e)
    \/ TaskStep

SpecRun == Init /\ [][NextRun]_vars

\* the steps of the read loop of a background session
BgLoopStep ==
    \/ \E r \in BgRequests : Len(reqs) < MaxBgRead /\ run_dispatch(r)
    \/ run_illegal
    \/ \E e \in ReadErrors : run_error(e)

\* the steps of the dispatch tasks of the requests in BgRequests
BgTaskStep ==
    \/ \E t \in Tasks : DispatchInit(t)
    \/ \E t \in Tasks : \E res \in InitResults : InitHookReturn(t, res)
    \/ \E t \in Tasks : DispatchBeforeInit(t)
    \/ \E t \in Tasks : DispatchSpawn(t)
    \/ \E t \in Tasks : dispatch_other(t)
    \/ \E t \in Tasks : \E res \in MethodResults : MethodReturn(t, res)

\* A background session whose handle may be dropped
NextBg ==
    \/ BgLoopStep
    \/ BgTaskStep
    \/ \E res \in UnmountResults : drop_handle(res)

\* The loop runs on a task of its own (session.rs:135): while it has not
\* returned it goes on reading, and a read of an unmounted channel returns
SpecBg == Init /\ [][NextBg]_vars /\ WF_vars(BgLoopStep)

\* the steps of the dispatch tasks of a session that is not destroyed
OpsTaskStep ==
    \/ \E t \in Tasks : DispatchInit(t)
    \/ \E t \in Tasks : \E res \in InitResults : InitHookReturn(t, res)
    \/ \E t \in Tasks : DispatchSpawn(t)
    \/ \E t \in Tasks : dispatch_other(t)
    \/ \E t \in Tasks : \E res \in MethodResults : MethodReturn(t, res)

\* The operations of an initialized session: the kernel sends Init until one
\* is answered with success and holds every other request back until then
NextOps ==
    \/ Len(reqs) < MaxOps /\ ~initialized /\ run_dispatch(OpsInit)
    \/ \E r \in OpRequests : Len(reqs) < MaxOps /\ initialized /\ run_dispatch(r)
    \/ OpsTaskStep

SpecOps == Init /\ [][NextOps]_vars

\* The SetAttr messages of an initialized session, with every validity
\* bitmask
NextSetAttr ==
    \/ Len(reqs) < MaxSetAttr /\ ~initialized /\ run_dispatch(OpsInit)
    \/ \E r \in SetAttrRequests : Len(reqs) < MaxSetAttr /\ initialized /\ run_dispatch(r)
    \/ OpsTaskStep

SpecSetAttr == Init /\ [][NextSetAttr]_vars

\* The Init exchange alone: the kernel sends Init messages only, with every
\* combination of version, flags and readahead
NextNeg ==
    \/ \E r \in InitRequests : Len(reqs) < MaxInit /\ run_dispatch(r)
    \/ \E t \in Tasks : DispatchInit(t)
    \/ \E t \in Tasks : \E res \in InitResults : InitHookReturn(t, res)

SpecNeg == Init /\ [][NextNeg]_vars

----------------------------------------------------------------------------
\* Vocabulary of the properties

\* the dispatch of request t runs its match in this step
Dispatched(t) == pc[t] = "spawned" /\ pc'[t] # "spawned"

\* a filesystem method is invoked in this step
Invoked == \E t \in Tasks : Len(calls'[t]) > Len(calls[t])

\* number of invocations of the filesystem's destroy hook so far
DestroyCalls ==
    Cardinality(UNION {{<<t, i>> : i \in {j \in 1..Len(calls[t]) :
                                            calls[t][j].method = "destroy"}} :
                       t \in Tasks})

\* a proposed version below 7.6
Below76(r) == r.major < 7 \/ (r.major = 7 /\ r.minor < 6)

\* the set of bits of a flag word
Bits(n) == {i \in 0..30 : (n \div (2 ^ i)) % 2 = 1}

\* the replies of request t that carry errno e
Answered(t, e) == \E i \in 1..Len(replies[t]) : replies[t][i] = ReplyError(e)

----------------------------------------------------------------------------
\* C1: in every reachable state, every request (unique id) has had at most
\* one Reply object constructed for it and at most one reply sent for it,
\* whichever arm of dispatch or capability method produced it.
C1_AtMostOneReply ==
    \A t \in Tasks :
        /\ replyObjs[t] <= 1
        /\ Len(replies[t]) <= replyObjs[t]

\* an Init, a Destroy and a fanned-out Lookup have each been answered once
C1_Witness ==
    \E a, b, c \in Tasks :
        /\ reqs[a].op = "Init" /\ Len(replies[a]) = 1
        /\ reqs[b].op = "Destroy" /\ replies[b] = <<ReplyOk>>
        /\ reqs[c].op = "Lookup" /\ Len(replies[c]) = 1 /\ Len(ret[c]) = 1

\* C2: a step that dispatches an operation other than Init while initialized
\* is false replies EIO to it, finishes it, invokes no filesystem method and
\* leaves initialized, destroyed, proto_major and proto_minor unchanged.
C2_BeforeInitRejected ==
    [][\A t \in Tasks :
          (Dispatched(t) /\ reqs[t].op # "Init" /\ ~initialized)
          => /\ replies'[t] = <<ReplyError(EIO)>>
             /\ pc'[t] = "done"
             /\ ~Invoked
             /\ session' = session]_vars

\* a Destroy and a Lookup were both rejected before any Init succeeded
C2_Witness ==
    /\ ~initialized
    /\ \E a, b \in Tasks :
        /\ reqs[a].op = "Destroy" /\ replies[a] = <<ReplyError(EIO)>> /\ calls[a] = <<>>
        /\ reqs[b].op = "Lookup" /\ replies[b] = <<ReplyError(EIO)>> /\ calls[b] = <<>>

\* C3: a step that dispatches an operation other than Destroy (Init
\* included) while destroyed is true replies EIO to it and invokes no
\* filesystem method.
C3_AfterDestroyRejected ==
    [][\A t \in Tasks :
          (Dispatched(t) /\ reqs[t].op # "Destroy" /\ destroyed)
          => /\ replies'[t] = <<ReplyError(EIO)>>
             /\ ~Invoked]_vars

\* C4: the destroy hook is invoked at most once in a session, and a step
\* that dispatches a Destroy while destroyed is true replies EIO to it.
C4_DestroyOnce ==
    [][/\ DestroyCalls' <= 1
       /\ \A t \in Tasks :
             (Dispatched(t) /\ reqs[t].op = "Destroy" /\ destroyed)
             => replies'[t] = <<ReplyError(EIO)>>]_vars

\* C5: a step in which the init hook of an Init proposing 7.6 or higher
\* returns Ok sends the success reply and sets initialized; and no step takes
\* initialized from true back to false, so it turns true once in a session.
C5_InitializedOnce ==
    [][/\ initialized => initialized'
       /\ \A t \in Tasks :
             (/\ reqs[t].op = "Init"
              /\ pc[t] = "init_hook" /\ pc'[t] # "init_hook"
              /\ ret'[t] = <<0>>)
             => /\ initialized'
                /\ replies'[t] = <<InitOut(reqs[t])>>]_vars

\* one Init has succeeded, and another Init, whose hook failed, is done too
C5_Witness ==
    /\ initialized
    /\ \E a, b \in Tasks :
        /\ reqs[a].op = "Init" /\ reqs[a].major = 7 /\ reqs[a].minor >= 6
        /\ ret[a] = <<0>> /\ replies[a] = <<InitOut(reqs[a])>>
        /\ reqs[b].op = "Init" /\ ret[b] = <<EIO>> /\ pc[b] = "done"

\* a step that dispatches an Init below 7.6 replies EPROTO, finishes it,
\* invokes no hook and leaves the session's four fields unchanged
C6_RejectsBelow76 ==
    \A t \in Tasks :
        (Dispatched(t) /\ reqs[t].op = "Init" /\ Below76(reqs[t]))
        => /\ replies'[t] = <<ReplyError(EPROTO)>>
           /\ pc'[t] = "done"
           /\ ~Invoked
           /\ session' = session

\* C6 as claimed: an Init below 7.6 is rejected with EPROTO with no effect,
\* and an Init of 7.6 or above is never answered with EPROTO.
C6_Original ==
    [][/\ C6_RejectsBelow76
       /\ \A t \in Tasks :
             (reqs[t].op = "Init" /\ ~Below76(reqs[t]))
             => ~(Answered(t, EPROTO))']_vars

\* C6 as amended: an Init below 7.6 is rejected with EPROTO with no effect,
\* and an Init of 7.6 or above is answered with EPROTO only when the
\* filesystem's own init hook returned EPROTO.
C6_Amended ==
    [][/\ C6_RejectsBelow76
       /\ \A t \in Tasks :
             (reqs[t].op = "Init" /\ ~Below76(reqs[t]))
             => (Answered(t, EPROTO)' => ret'[t] = <<EPROTO>>)]_vars

\* a 7.5 Init was rejected and an 8.0 Init was accepted
C6_Witness ==
    \E a, b \in Tasks :
        /\ reqs[a].major = 7 /\ reqs[a].minor = 5
        /\ replies[a] = <<ReplyError(EPROTO)>> /\ calls[a] = <<>>
        /\ reqs[b].major = 8 /\ reqs[b].minor = 0
        /\ replies[b] = <<InitOut(reqs[b])>>

\* C7: whenever the loop reads a request, the dispatch of every request read
\* before has returned; a request read after an Init that succeeds is never
\* rejected as "before init"; and no filesystem method is invoked for a
\* request read after a Destroy that was carried out.
C7_LifecycleInline ==
    [][/\ Len(reqs') > Len(reqs)
          => \A t \in Tasks : pc[t] \notin {"spawned", "init_hook", "destroy_hook"}
       /\ \A a, b \in Tasks :
             (a < b /\ reqs[a].op = "Init" /\ replies'[a] = <<InitOut(reqs[a])>>)
             => logged'[b] # <<"before_init">>
       /\ \A a, b \in Tasks :
             (a < b /\ reqs[a].op = "Destroy" /\ replies'[a] = <<ReplyOk>>)
             => calls'[b] = <<>>]_vars

\* C8: once the destroy hook has been invoked, no step invokes a filesystem
\* method.
C8_NothingAfterDestroy ==
    [][DestroyCalls > 0 => ~Invoked]_vars

\* C9: every success reply to an Init carries exactly the flags that are
\* both offered by the kernel and in INIT_FLAGS, max_write = MAX_WRITE_SIZE
\* and the max_readahead of the request.
C9_InitReply ==
    \A t \in Tasks :
        \A i \in 1..Len(replies[t]) :
            (reqs[t].op = "Init" /\ replies[t][i].error = 0)
            => /\ Bits(replies[t][i].flags) = Bits(reqs[t].flags) \cap Bits(INIT_FLAGS)
               /\ replies[t][i].max_write = MAX_WRITE_SIZE
               /\ replies[t][i].max_readahead = reqs[t].max_readahead

\* the kernel offered a flag outside INIT_FLAGS and the reply dropped it
C9_Witness ==
    \E t \in Tasks :
        /\ reqs[t].op = "Init"
        /\ reqs[t].flags = FUSE_ASYNC_READ + FUSE_POSIX_LOCKS
        /\ reqs[t].max_readahead = 131072
        /\ Len(replies[t]) = 1
        /\ replies[t][1].error = 0
        /\ replies[t][1].flags = FUSE_ASYNC_READ

\* C10: in every reachable state, no Reply object has been constructed and
\* no reply has been sent for any Forget request.
C10_ForgetNoReply ==
    \A t \in Tasks :
        reqs[t].op = "Forget" => (replyObjs[t] = 0 /\ replies[t] = <<>>)

\* C11: in every reachable state, destroyed implies initialized.
C11_DestroyedImpliesInitialized == destroyed => initialized

\* a Destroy has been carried out
C11_Witness ==
    /\ destroyed
    /\ initialized
    /\ \E t \in Tasks : reqs[t].op = "Destroy" /\ replies[t] = <<ReplyOk>>

\* the loop has read in this step, and the read failed
ReadFailed == last_read' # last_read /\ last_read'[1].err # 0

\* C12: a read that fails with ENOENT, EINTR or EAGAIN leaves the loop
\* running and changes no reply, no call, no task and no session field; one
\* that fails with ENODEV ends the loop with Ok(()); one that fails with any
\* other error ends the loop with that error.
C12_ReadErrors ==
    [][ReadFailed =>
          LET e == last_read'[1].err IN
          /\ e \in {ENOENT, EINTR, EAGAIN}
                => /\ ~run_result'.done
                   /\ run_result' = run_result
                   /\ replies' = replies
                   /\ calls' = calls
                   /\ reqs' = reqs
                   /\ pc' = pc
                   /\ session' = session
          /\ e = ENODEV => run_result' = [done |-> TRUE, err |-> 0]
          /\ e \notin {ENOENT, EINTR, EAGAIN, ENODEV}
                => run_result' = [done |-> TRUE, err |-> e]]_vars

\* a read failed with EAGAIN while a capability method was running, and the
\* loop is still reading
C12_Witness ==
    /\ last_read = Received(EAGAIN, FALSE)
    /\ ~run_result.done
    /\ \E t \in Tasks : pc[t] = "in_fs"

\* C13: a read whose message does not decode ends the loop with Ok(()),
\* adds no request, dispatches nothing and invokes nothing; and once the loop
\* has ended no further read happens.
C13_IllegalEndsLoop ==
    [][/\ (last_read' # last_read /\ last_read' = Received(0, FALSE))
          => /\ run_result' = [done |-> TRUE, err |-> 0]
             /\ reqs' = reqs
             /\ pc' = pc
             /\ calls' = calls
             /\ replies' = replies
       /\ run_result.done
          => /\ last_read' = last_read
             /\ reqs' = reqs
             /\ run_result' = run_result]_vars

\* the loop ended on a malformed message while a request was still waiting
\* for its dispatch
C13_Witness ==
    /\ run_result = [done |-> TRUE, err |-> 0]
    /\ last_read = Received(0, FALSE)
    /\ \E t \in Tasks : pc[t] = "spawned"

\* C14: a step in which the init hook of an Init returns an error sends the
\* error reply with the hook's error code and leaves initialized as it was.
C14_InitHookFails ==
    [][\A t \in Tasks :
          (/\ reqs[t].op = "Init"
           /\ pc[t] = "init_hook" /\ pc'[t] # "init_hook"
           /\ ret'[t] # <<0>>)
          => /\ Len(ret'[t]) = 1
             /\ replies'[t] = <<ReplyError(ret'[t][1])>>
             /\ initialized' = initialized]_vars

\* the init hook failed with EPROTO and the session is not initialized
C14_Witness ==
    /\ ~initialized
    /\ \E t \in Tasks :
        /\ reqs[t].op = "Init"
        /\ ret[t] = <<EPROTO>>
        /\ replies[t] = <<ReplyError(EPROTO)>>

\* C15 as claimed: in every reachable state where initialized is false,
\* proto_major = 0 and proto_minor = 0.
C15_Original == ~initialized => (proto_major = 0 /\ proto_minor = 0)

\* C15 as amended: in every reachable state where no Init proposing 7.6 or
\* above has been dispatched, proto_major = 0 and proto_minor = 0.
C15_Amended ==
    (\A t \in Tasks : (reqs[t].op = "Init" /\ ~Below76(reqs[t])) => pc[t] = "spawned")
    => (proto_major = 0 /\ proto_minor = 0)

\* an Init below 7.6 was rejected, an Init of 7.6 or above waits for its
\* dispatch, and the version is still 0
C15_Witness ==
    /\ proto_major = 0
    /\ proto_minor = 0
    /\ \E a, b \in Tasks :
        /\ reqs[a].op = "Init" /\ Below76(reqs[a]) /\ pc[a] = "done"
        /\ reqs[b].op = "Init" /\ ~Below76(reqs[b]) /\ pc[b] = "spawned"

\* C16 as claimed: once an Init has succeeded, no step changes proto_major
\* or proto_minor.
C16_Original ==
    [][initialized => (proto_major' = proto_major /\ proto_minor' = proto_minor)]_vars

\* C16 as amended: every dispatch of an Init proposing 7.6 or above stores
\* its version in proto_major and proto_minor, and no other step changes them.
C16_Amended ==
    [][/\ \A t \in Tasks :
             (Dispatched(t) /\ reqs[t].op = "Init" /\ ~Below76(reqs[t]))
             => (proto_major' = reqs[t].major /\ proto_minor' = reqs[t].minor)
       /\ (proto_major' # proto_major \/ proto_minor' # proto_minor)
          => \E t \in Tasks :
                Dispatched(t) /\ reqs[t].op = "Init" /\ ~Below76(reqs[t])]_vars

\* an Init 7.6 has succeeded and the session holds the version of an Init
\* 8.0 dispatched after it
C16_Witness ==
    /\ initialized
    /\ proto_major = 8
    /\ proto_minor = 0
    /\ \E a, b \in Tasks :
        /\ reqs[a].op = "Init" /\ reqs[a].major = 7 /\ reqs[a].minor = 6
        /\ replies[a] = <<InitOut(reqs[a])>>
        /\ reqs[b].op = "Init" /\ reqs[b].major = 8 /\ pc[b] # "spawned"

\* the step that drops the handle attempts the unmount, only logs its
\* failure, and touches neither the loop's result nor the session nor any
\* request; and every read of an unmounted channel fails with ENODEV
C17_DropIsQuiet ==
    [][/\ (handle = "held" /\ handle' = "dropped")
          => /\ ~mounted' \/ unmount_failed'
             /\ run_result' = run_result
             /\ session' = session
             /\ reqs' = reqs
             /\ pc' = pc
       /\ (~mounted /\ last_read' # last_read)
          => last_read' = Received(ENODEV, FALSE)]_vars

C18_Interrupt ==
    [][\A t \in Tasks :
          (Dispatched(t) /\ reqs[t].op = "Interrupt")
          => /\ replies'[t] =
                   <<ReplyError(IF initialized /\ ~destroyed THEN ENOSYS ELSE EIO)>>
             /\ pc'[t] = "done"
             /\ ~Invoked
             /\ session' = session]_vars

\* one Interrupt was answered EIO before init, another ENOSYS after it
C18_Witness ==
    \E a, b \in Tasks :
        /\ reqs[a].op = "Interrupt" /\ replies[a] = <<ReplyError(EIO)>>
        /\ logged[a] = <<"before_init">>
        /\ reqs[b].op = "Interrupt" /\ replies[b] = <<ReplyError(ENOSYS)>>

\* C19: in every reachable state in which the loop has not returned, the
\* loop can read the next request, every request read can be dispatched and
\* every fanned-out request can reach its method, whatever the other
\* requests' methods are doing.
C19_LoopNeverWaits ==
    /\ ~run_result.done => \A r \in Requests : ENABLED run_dispatch(r)
    /\ \A t \in Tasks :
          /\ pc[t] = "spawned"
                => ENABLED (\/ DispatchInit(t)
                            \/ DispatchBeforeInit(t)
                            \/ DispatchDestroy(t)
                            \/ DispatchAfterDestroy(t)
                            \/ DispatchInterrupt(t)
                            \/ DispatchSpawn(t))
          /\ pc[t] = "fanned" => ENABLED dispatch_other(t)

\* the method of a Lookup has not completed, and a Lookup read after it has
\* been answered
C19_Witness ==
    \E a, b \in Tasks :
        /\ a < b
        /\ reqs[a].op = "Lookup" /\ pc[a] = "in_fs" /\ replies[a] = <<>>
        /\ reqs[b].op = "Lookup" /\ pc[b] = "done" /\ Len(replies[b]) = 1
        /\ Len(ret[b]) = 1

\* a step of the fan-out of request t: the second spawn, the invocation of
\* its method, or the method's completion
FanOutStep(t) ==
    /\ pc'[t] # pc[t]
    /\ pc[t] \in {"fanned", "in_fs"} \/ pc'[t] = "fanned"

\* C20: a step of the fan-out of a request leaves initialized, destroyed,
\* proto_major, proto_minor and the loop's result unchanged; a method's
\* result, success or error, only becomes the reply to that one request.
C20_FanOutFrame ==
    [][\A t \in Tasks :
          FanOutStep(t)
          => /\ session' = session
             /\ run_result' = run_result
             /\ ret'[t] # ret[t] => replies'[t] = <<ReplyError(ret'[t][1])>>
             /\ \A u \in Tasks : u # t => replies'[u] = replies[u]]_vars

\* a Lookup's method reported ENOSYS; the session is initialized, not
\* destroyed, and the loop is running
C20_Witness ==
    /\ initialized
    /\ ~destroyed
    /\ ~run_result.done
    /\ \E t \in Tasks :
        /\ reqs[t].op = "Lookup"
        /\ ret[t] = <<ENOSYS>>
        /\ replies[t] = <<ReplyError(ENOSYS)>>

\* the payload of a Write or a SetXAttr has the length its header declares
PayloadMatches(r) ==
    /\ r.op = "Write" => Len(r.data) = r.size
    /\ r.op = "SetXAttr" => Len(r.value) = r.size

\* the capability method matching each opcode
MethodOf ==
    [Lookup |-> "lookup", Forget |-> "forget", GetAttr |-> "getattr", SetAttr |-> "setattr",
     ReadLink |-> "readlink", MkNod |-> "mknod", MkDir |-> "mkdir", Unlink |-> "unlink",
     RmDir |-> "rmdir", SymLink |-> "symlink", Rename |-> "rename", Link |-> "link",
     Open |-> "open", Read |-> "read", Write |-> "write", Flush |-> "flush",
     Release |-> "release", FSync |-> "fsync", OpenDir |-> "opendir", ReadDir |-> "readdir",
     ReleaseDir |-> "releasedir", FSyncDir |-> "fsyncdir", StatFs |-> "statfs",
     SetXAttr |-> "setxattr", GetXAttr |-> "getxattr", ListXAttr |-> "listxattr",
     RemoveXAttr |-> "removexattr", Access |-> "access", Create |-> "create",
     GetLk |-> "getlk", SetLk |-> "setlk", SetLkW |-> "setlk", BMap |-> "bmap"]

\* the fields of a request that its method receives as they are: all but the
\* opcode, the fields that are decoded (offset, flag words, lock descriptor),
\* the declared payload size, and the fields of SetAttr
Verbatim(r) ==
    IF r.op = "SetAttr" THEN {"nodeid"}
    ELSE DOMAIN r \ ({"op", "offset", "release_flags", "fsync_flags", "lk"}
                     \cup (IF r.op \in {"Write", "SetXAttr"} THEN {"size"} ELSE {}))

\* call c carries the node id and the opcode arguments of request r
PassesArguments(r, c) ==
    /\ Verbatim(r) \subseteq DOMAIN c
    /\ \A f \in Verbatim(r) : c[f] = r[f]
    /\ "offset" \in DOMAIN r
          => /\ c.offset.low = r.offset.low
             /\ c.offset.negative = (r.offset.top = 1)
    /\ "lk" \in DOMAIN r
          => /\ c.start = r.lk.start
             /\ c.end = r.lk.end
             /\ c.typ = r.lk.typ
             /\ c.pid = r.lk.pid
    /\ r.op = "GetLk" => c.sleep = <<>>
    /\ r.op = "SetLk" => c.sleep = <<FALSE>>
    /\ r.op = "SetLkW" => c.sleep = <<TRUE>>
    /\ r.op = "Release" => c.flush = (r.release_flags % 2 = 1)
    /\ r.op \in {"FSync", "FSyncDir"} => c.datasync = (r.fsync_flags % 2 = 1)

OptionalFields ==
    [mode |-> 0, uid |-> 1, gid |-> 2, size |-> 3, atime |-> 4, mtime |-> 5, fh |-> 6]

\* what setattr receives for field f of request r when the field is present
PresentValue(r, f) ==
    CASE f = "atime" -> SinceEpoch(r.atime, r.atimensec)
      [] f = "mtime" -> SinceEpoch(r.mtime, r.mtimensec)
      [] OTHER -> r[f]

\* C22: the step that invokes setattr for a SetAttr passes each of mode,
\* uid, gid, size, atime, mtime and file handle as Some(value of the field)
\* if its validity bit is set and as None otherwise, whatever the bitmask;
\* with only the size bit set, size is Some(size) and the other six are None.
C22_SetAttrOptions ==
    [][\A t \in Tasks :
          (reqs[t].op = "SetAttr" /\ pc[t] = "fanned" /\ pc'[t] # "fanned")
          => LET r == reqs[t]
                 c == calls'[t][1]
             IN /\ Len(calls'[t]) = 1
                /\ c.method = "setattr"
                /\ \A f \in DOMAIN OptionalFields :
                      IF OptionalFields[f] \in Bits(r.valid)
                      THEN c[f] = <<PresentValue(r, f)>>
                      ELSE c[f] = <<>>
                /\ r.valid = FATTR_SIZE
                      => /\ c.size = <<r.size>>
                         /\ \A f \in DOMAIN OptionalFields \ {"size"} : c[f] = <<>>]_vars

\* setattr was invoked for a SetAttr with only the size bit set: its size is
\* Some(0), its uid and gid are None, not 0
C22_Witness ==
    \E t \in Tasks :
        /\ reqs[t] = SetAttrIn(FATTR_SIZE)
        /\ pc[t] = "in_fs"
        /\ calls[t] = <<[method |-> "setattr", nodeid |-> 1, mode |-> <<>>, uid |-> <<>>,
                         gid |-> <<>>, size |-> <<0>>, atime |-> <<>>, mtime |-> <<>>,
                         fh |-> <<>>, crtime |-> <<>>, chgtime |-> <<>>,
                         bkuptime |-> <<>>, flags |-> <<>>]>>

\* C23: the fan-out step of a Write or a SetXAttr whose payload length
\* differs from the declared size ends the task in the failed assertion: no
\* method is invoked, no reply sink is made and no reply is ever sent for it;
\* when the lengths are equal, write (setxattr) is invoked with that payload.
C23_PayloadAssertion ==
    /\ [][\A t \in Tasks :
             (reqs[t].op \in {"Write", "SetXAttr"} /\ pc[t] = "fanned" /\ pc'[t] # "fanned")
             => LET r == reqs[t] IN
                IF PayloadMatches(r)
                THEN /\ pc'[t] = "in_fs"
                     /\ Len(calls'[t]) = 1
                     /\ r.op = "Write"
                           => (calls'[t][1].method = "write" /\ calls'[t][1].data = r.data)
                     /\ r.op = "SetXAttr"
                           => (calls'[t][1].method = "setxattr"
                               /\ calls'[t][1].value = r.value)
                ELSE /\ pc'[t] = "panicked"
                     /\ calls'[t] = <<>>
                     /\ replyObjs'[t] = 0
                     /\ replies'[t] = <<>>]_vars
    /\ [][\A t \in Tasks : pc[t] = "panicked"
             => /\ pc'[t] = "panicked"
                /\ calls'[t] = <<>>
                /\ replies'[t] = <<>>]_vars

\* a Write declaring 2 bytes and carrying 1 has failed its assertion, and
\* nothing was invoked or sent for it
C23_Witness ==
    \E t \in Tasks :
        /\ reqs[t].op = "Write"
        /\ reqs[t].size = 2
        /\ reqs[t].data = <<104>>
        /\ pc[t] = "panicked"
        /\ calls[t] = <<>>
        /\ replies[t] = <<>>

====
